---- MODULE Spec2Model ----
(***************************************************************************)
(* granular-rbac: the core PermissionEngine (decision function) and the    *)
(* RoleService (role CRUD and user-role assignment over a Sequelize store).*)
(*                                                                         *)
(* Optional JavaScript values are modelled as sequences of length 0 or 1:  *)
(* Undefined is <<>> and a present value v is <<v>>, so that `undefined`,  *)
(* 0 and the empty string stay distinct values with their own truthiness.  *)
(***************************************************************************)
EXTENDS Integers, Sequences, FiniteSets, TLC

\* ------------------------------------------------------------------ bounds
\* Highest role id the store hands out (autoIncrement never reuses an id).
MaxRoles == 2
\* Number of user ids that callers assign roles to.
MaxUsers == 1
\* Number of RoleService calls in a behaviour.
MaxCalls == 4
\* Number of createRole calls in flight at the same time.
MaxProcs == 2
\* Latest reading of the clock, in milliseconds.
MaxClock == 3

\* ------------------------------------------------------------ JS values
Undefined == <<>>
Some(v) == <<v>>
IsDefined(o) == o # Undefined
Val(o) == o[1]

\* JavaScript truthiness of an optional number: undefined and 0 are falsy.
TruthyNum(o) == IsDefined(o) /\ Val(o) # 0
\* JavaScript truthiness of an optional string: undefined and "" are falsy.
TruthyStr(o) == IsDefined(o) /\ Val(o) # ""

\* Array.prototype.includes
Includes(arr, x) == \E i \in 1..Len(arr) : arr[i] = x

\* ------------------------------------------------------------ the catalog
\* config.permissions flattened (Object.values(...).flat()): the shortNames.
allPermissions == <<"orders.view", "orders.edit">>

\* Identifiers callers pass; "bogus.permission" is not in the catalog.
PermissionNames == {"orders.view", "orders.edit", "bogus.permission"}

\* Permission lists callers pass (arrays: order and repetition are kept).
PermLists ==
  { <<>>, <<"orders.view">>, <<"orders.edit", "orders.view">>,
    <<"orders.view", "orders.view">>, <<"bogus.permission">>,
    <<"orders.view", "bogus.permission">> }

\* Mutant: every identifier passes for a catalog shortName.
validatePermission_AcceptsAll(shortName) == TRUE

validatePermission(shortName) == Includes(allPermissions, shortName)

\* Mutant: identifiers that are not in the catalog are dropped, not reported.
validatePermissions_DropsInvalid(shortNames) ==
  [ valid   |-> SelectSeq(shortNames, LAMBDA s : validatePermission(s)),
    invalid |-> <<>> ]

\* Array.from(new Set(arr)): the distinct elements of a list, in the order
\* of their first occurrence.
RECURSIVE Collapse(_)
Collapse(arr) ==
  IF arr = <<>> THEN <<>>
  ELSE LET rest == Collapse(SubSeq(arr, 1, Len(arr) - 1)) IN
       IF Includes(rest, arr[Len(arr)]) THEN rest
       ELSE Append(rest, arr[Len(arr)])

\* Mutant: an identifier is reported once, however often the input has it.
validatePermissions_Collapses(shortNames) ==
  [ valid   |-> Collapse(SelectSeq(shortNames,
                                   LAMBDA s : validatePermission(s))),
    invalid |-> Collapse(SelectSeq(shortNames,
                                   LAMBDA s : ~validatePermission(s))) ]

\* forEach over the input, pushing each item to valid or invalid in order.
validatePermissions(shortNames) ==
  [ valid   |-> SelectSeq(shortNames, LAMBDA s : validatePermission(s)),
    invalid |-> SelectSeq(shortNames, LAMBDA s : ~validatePermission(s)) ]

\* ---------------------------------------------------------------- users
UserTypes == {"superadmin", "admin", "user"}
\* Tenants that own roles.
TenantIds == {1, 2}
\* Values of user[config.tenant.field] and of the tenantId argument.
OptTenant == {Undefined, Some(0)} \cup {Some(t) : t \in TenantIds}

\* user.roles as carried by a User value (undefined, or role objects).
UserRoleLists ==
  { Undefined, Some(<<>>),
    Some(<< [name |-> "Manager", permissions |-> <<"orders.view">>] >>) }

\* user.permissions (undefined or an array).
UserPermLists ==
  { Undefined, Some(<<>>), Some(<<"orders.view">>),
    Some(<<"orders.edit", "bogus.permission">>) }

Users ==
  [ userType : UserTypes, tenant : OptTenant,
    permissions : UserPermLists, roles : UserRoleLists ]

\* An absent user (null/undefined) is Undefined; a present one is Some(u).
OptUsers == {Undefined} \cup {Some(u) : u \in Users}

\* ------------------------------------------------------ PermissionEngine
\* Mutant: the bypass requires an explicit matching tenant (`&&` for `!... ||`).
AdminBypass_RequiresTenant(user, tenantId) ==
  TruthyNum(tenantId) /\ user.tenant = tenantId

\* The admin branch of userHasPermission: `!tenantId || userTenantId === tenantId`.
AdminBypass(user, tenantId) ==
  ~TruthyNum(tenantId) \/ user.tenant = tenantId

\* Concatenation of the permissions of every role of a role list.
RECURSIVE FlattenRolePermissions(_)
FlattenRolePermissions(rs) ==
  IF rs = <<>> THEN <<>>
  ELSE Head(rs).permissions \o FlattenRolePermissions(Tail(rs))

\* Mutant: the engine also walks user.roles.
PermissionsOrEmpty_WalksRoles(user) ==
  (IF IsDefined(user.permissions) THEN Val(user.permissions) ELSE <<>>)
    \o (IF IsDefined(user.roles) THEN FlattenRolePermissions(Val(user.roles))
        ELSE <<>>)

\* user.permissions || []
PermissionsOrEmpty(user) ==
  IF IsDefined(user.permissions) THEN Val(user.permissions) ELSE <<>>

\* Mutant: the superadmin bypass is tenant-scoped like the admin one.
userHasPermission_ScopedSuperadmin(optUser, permissionShortName, tenantId) ==
  IF ~IsDefined(optUser) THEN FALSE
  ELSE LET user == Val(optUser) IN
    IF user.userType \in {"superadmin", "admin"} /\ AdminBypass(user, tenantId)
    THEN TRUE
    ELSE Includes(PermissionsOrEmpty(user), permissionShortName)

userHasPermission(optUser, permissionShortName, tenantId) ==
  IF ~IsDefined(optUser) THEN FALSE
  ELSE LET user == Val(optUser) IN
    IF user.userType = "superadmin" THEN TRUE
    ELSE IF user.userType = "admin" /\ AdminBypass(user, tenantId) THEN TRUE
    ELSE Includes(PermissionsOrEmpty(user), permissionShortName)

\* Mutant: a superadmin is answered before the list is looked at.
userHasAnyPermission_BypassFirst(optUser, permissionShortNames, tenantId) ==
  \/ IsDefined(optUser) /\ Val(optUser).userType = "superadmin"
  \/ \E i \in 1..Len(permissionShortNames) :
       userHasPermission(optUser, permissionShortNames[i], tenantId)

\* The for loop of userHasAnyPermission: true at the first permission that is
\* granted, false when the list is exhausted.
RECURSIVE userHasAnyPermission(_, _, _)
userHasAnyPermission(optUser, permissionShortNames, tenantId) ==
  IF permissionShortNames = <<>> THEN FALSE
  ELSE IF userHasPermission(optUser, Head(permissionShortNames), tenantId)
    THEN TRUE
  ELSE userHasAnyPermission(optUser, Tail(permissionShortNames), tenantId)

\* Mutant: an empty list is refused.
userHasAllPermissions_EmptyDenied(optUser, permissionShortNames, tenantId) ==
  /\ permissionShortNames # <<>>
  /\ \A i \in 1..Len(permissionShortNames) :
       userHasPermission(optUser, permissionShortNames[i], tenantId)

\* The for loop of userHasAllPermissions: false at the first permission that
\* is denied, true when the list is exhausted.
RECURSIVE userHasAllPermissions(_, _, _)
userHasAllPermissions(optUser, permissionShortNames, tenantId) ==
  IF permissionShortNames = <<>> THEN TRUE
  ELSE IF ~userHasPermission(optUser, Head(permissionShortNames), tenantId)
    THEN FALSE
  ELSE userHasAllPermissions(optUser, Tail(permissionShortNames), tenantId)

\* this.allPermissions.map(p => p.shortName)
getAllPermissionShortNames == allPermissions

getUserPermissions(optUser) ==
  IF ~IsDefined(optUser) THEN <<>>
  ELSE LET user == Val(optUser) IN
    IF user.userType = "superadmin" THEN getAllPermissionShortNames
    ELSE IF user.userType = "admin" THEN getAllPermissionShortNames
    ELSE PermissionsOrEmpty(user)

\* What a synchronous engine call does: it returns a boolean, or it throws.
Returns(b) == [threw |-> FALSE, value |-> b]
\* Reading a property of null or undefined throws a TypeError.
ThrowsTypeError == [threw |-> TRUE, value |-> FALSE]

\* getUserRoles(user): `user.roles || []`, a property read on `user`.
getUserRoles(optUser) ==
  IF ~IsDefined(optUser) THEN [threw |-> TRUE, value |-> <<>>]
  ELSE [ threw |-> FALSE,
         value |-> IF IsDefined(Val(optUser).roles)
                   THEN Val(Val(optUser).roles) ELSE <<>> ]

\* userHasRole(user, roleName): getUserRoles(user).some(role => ...)
userHasRole(optUser, roleName) ==
  LET userRoles == getUserRoles(optUser) IN
  IF userRoles.threw THEN ThrowsTypeError
  ELSE Returns(\E i \in 1..Len(userRoles.value) :
                 userRoles.value[i].name = roleName)

\* userHasAnyRole(user, roleNames): getUserRoles(user) is evaluated first.
userHasAnyRole(optUser, roleNames) ==
  LET userRoles == getUserRoles(optUser) IN
  IF userRoles.threw THEN ThrowsTypeError
  ELSE Returns(\E k \in 1..Len(roleNames) :
                 \E i \in 1..Len(userRoles.value) :
                   userRoles.value[i].name = roleNames[k])

\* SimplePermissionEngine.userHasPermission of the React package: tenantId
\* is not read.
SimpleUserHasPermission(optUser, permission, tenantId) ==
  IF ~IsDefined(optUser) THEN FALSE
  ELSE LET user == Val(optUser) IN
    IF user.userType = "superadmin" \/ user.userType = "admin" THEN TRUE
    \* user.permissions?.includes(permission)
    ELSE IF /\ IsDefined(user.permissions)
            /\ Includes(Val(user.permissions), permission) THEN TRUE
    ELSE IF IsDefined(user.roles)
      THEN \E i \in 1..Len(Val(user.roles)) :
             Includes(Val(user.roles)[i].permissions, permission)
    ELSE FALSE

\* Role names and lists of role names callers ask about.
RoleNameArgs == {"Manager", "Cashier"}
RoleNameLists == { <<>>, <<"Manager">>, <<"Cashier", "Manager">> }

\* ------------------------------------------------------------------ state
VARIABLES
  check,       \* the last engine call: its arguments and its result
  roles,       \* the roles table: a set of rows
  assignments, \* the user_roles table: number of rows per <<userId, roleId>>
  nextId,      \* the roles table's autoIncrement counter
  now,         \* the store's clock, as stamped into createdAt by an insert
  last,        \* the last RoleService call: operation, role, tenant, outcome
  createdUnder,\* history: the tenantId each role id was created with
  everAssigned,\* history: role ids that have been assigned to some user
  calls,       \* number of RoleService calls made so far
  procs,       \* the calls in flight: position, arguments, outcome
  http         \* the HTTP request in the middleware chain and its response

vars ==
  <<check, roles, assignments, nextId, now, last, createdUnder, everAssigned,
    calls, procs, http>>
storeVars ==
  <<roles, assignments, nextId, now, last, createdUnder, everAssigned, calls,
    procs>>

\* op is the method called; permission holds its name argument and names its
\* list argument; result is the boolean returned, returned the list returned
\* (getUserPermissions; `valid` of validatePermissions), rejected the
\* `invalid` of validatePermissions, threw whether the call threw.
NoCheck == [user |-> Undefined, permission |-> "", tenantId |-> Undefined,
            result |-> FALSE, called |-> FALSE, op |-> "none",
            names |-> <<>>, returned |-> <<>>, rejected |-> <<>>,
            threw |-> FALSE]

\* A caller evaluates engine.userHasPermission(user, permission, tenantId).
UserHasPermissionCall(u, p, t) ==
  /\ check' = [ NoCheck EXCEPT !.op = "userHasPermission",
                               !.user = u, !.permission = p, !.tenantId = t,
                               !.result = userHasPermission(u, p, t),
                               !.called = TRUE ]
  /\ UNCHANGED <<http, storeVars>>

\* The engine keeps nothing between calls: the behaviours of the calls below
\* are of one call each.
FirstCall == ~check.called

\* engine.userHasPermission(user, permission, tenantId), as the one call.
DecideCall(u, p, t) == FirstCall /\ UserHasPermissionCall(u, p, t)

\* The React package's engine.userHasPermission(user, permission, tenantId),
\* as the one call.
SimpleUserHasPermissionCall(u, p, t) ==
  /\ FirstCall
  /\ check' = [ NoCheck EXCEPT !.op = "SimplePermissionEngine.userHasPermission",
                               !.user = u, !.permission = p, !.tenantId = t,
                               !.result = SimpleUserHasPermission(u, p, t),
                               !.called = TRUE ]
  /\ UNCHANGED <<http, storeVars>>

\* engine.userHasAnyPermission(user, permissions, tenantId)
UserHasAnyPermissionCall(u, ps, t) ==
  /\ FirstCall
  /\ check' = [ NoCheck EXCEPT !.op = "userHasAnyPermission",
                               !.user = u, !.names = ps, !.tenantId = t,
                               !.result = userHasAnyPermission(u, ps, t),
                               !.called = TRUE ]
  /\ UNCHANGED <<http, storeVars>>

\* engine.userHasAllPermissions(user, permissions, tenantId)
UserHasAllPermissionsCall(u, ps, t) ==
  /\ FirstCall
  /\ check' = [ NoCheck EXCEPT !.op = "userHasAllPermissions",
                               !.user = u, !.names = ps, !.tenantId = t,
                               !.result = userHasAllPermissions(u, ps, t),
                               !.called = TRUE ]
  /\ UNCHANGED <<http, storeVars>>

\* engine.getUserPermissions(user)
GetUserPermissionsCall(u) ==
  /\ FirstCall
  /\ check' = [ NoCheck EXCEPT !.op = "getUserPermissions", !.user = u,
                               !.returned = getUserPermissions(u),
                               !.called = TRUE ]
  /\ UNCHANGED <<http, storeVars>>

\* engine.validatePermissions(shortNames), as the first call or after
\* another validatePermissions call.
ValidatePermissionsCall(ps) ==
  LET out == validatePermissions(ps) IN
  /\ FirstCall \/ check.op = "validatePermissions"
  /\ check' = [ NoCheck EXCEPT !.op = "validatePermissions", !.names = ps,
                               !.returned = out.valid,
                               !.rejected = out.invalid,
                               !.called = TRUE ]
  /\ UNCHANGED <<http, storeVars>>

\* engine.userHasRole(user, roleName)
UserHasRoleCall(u, roleName) ==
  LET out == userHasRole(u, roleName) IN
  /\ FirstCall
  /\ check' = [ NoCheck EXCEPT !.op = "userHasRole", !.user = u,
                               !.permission = roleName,
                               !.result = out.value, !.threw = out.threw,
                               !.called = TRUE ]
  /\ UNCHANGED <<http, storeVars>>

\* engine.userHasAnyRole(user, roleNames)
UserHasAnyRoleCall(u, roleNames) ==
  LET out == userHasAnyRole(u, roleNames) IN
  /\ FirstCall
  /\ check' = [ NoCheck EXCEPT !.op = "userHasAnyRole", !.user = u,
                               !.names = roleNames,
                               !.result = out.value, !.threw = out.threw,
                               !.called = TRUE ]
  /\ UNCHANGED <<http, storeVars>>

\* ------------------------------------------------------------ the store
RoleIds == 1..MaxRoles
UserIds == 1..MaxUsers
RoleNames == {"", "Manager"}
Descriptions == {Undefined, Some("Store managers")}

\* Permission lists passed to the RoleService.
ServicePermLists ==
  { <<>>, <<"orders.view">>, <<"orders.view", "bogus.permission">> }

CreateRoleRequests ==
  [ name : RoleNames, description : {Undefined},
    permissions : ServicePermLists ]

\* UpdateRoleRequest: every field is optional.
UpdateRoleRequests ==
  [ name : {Undefined} \cup {Some(n) : n \in RoleNames},
    description : Descriptions,
    permissions : {Undefined} \cup {Some(l) : l \in ServicePermLists} ]

\* The updateRole requests of the call sequences: a request that sets the
\* description sets nothing else.
SequenceUpdateRequests ==
  { d \in UpdateRoleRequests :
      IsDefined(d.description) =>
        (d.name = Undefined /\ d.permissions = Undefined) }

\* Outcomes of a RoleService call: "ok" or the message of the Error thrown.
Ok == "ok"
ErrInvalidPermissions == "Invalid permissions"
ErrDuplicateName == "Role with this name already exists for this tenant"
ErrRoleNotFound == "Role not found"
ErrRoleInUse == "Cannot delete role that is assigned to users"
ErrAlreadyAssigned == "User already has this role"
ErrNotAssigned == "User does not have this role"
\* Thrown by the store itself when an insert or update breaks a unique index.
ErrUniqueConstraint == "SequelizeUniqueConstraintError"
\* Thrown by the store itself when a write breaks a foreign key.
ErrForeignKey == "SequelizeForeignKeyConstraintError"

\* `invalid` is the list that the message of an 'Invalid permissions' error
\* names (`Invalid permissions: ${invalid.join(', ')}`), empty otherwise.
NoCall == [op |-> "none", roleId |-> Undefined, tenantId |-> Undefined,
           result |-> Ok, invalid |-> <<>>]

Called(op, roleId, tenantId, result) ==
  [op |-> op, roleId |-> roleId, tenantId |-> tenantId, result |-> result,
   invalid |-> <<>>]

\* throw new Error(`Invalid permissions: ${invalid.join(', ')}`)
InvalidPermissions(op, roleId, tenantId, invalid) ==
  [ Called(op, roleId, tenantId, ErrInvalidPermissions)
      EXCEPT !.invalid = invalid ]

\* Mutant: the roles table has no unique index on (tenant field, name).
UniqueIndexAllows_NoIndex(rows, id, tenantId, name) == TRUE

\* The unique index on [config.tenant.field, 'name'] of the roles table:
\* whether row `id` may hold (tenantId, name) beside the other rows.
UniqueIndexAllows(rows, id, tenantId, name) ==
  \A r \in rows : r.id # id => ~(r.tenantId = tenantId /\ r.name = name)

\* Mutant: the lookup by name is not scoped to the tenant.
FindRolesByName_AnyTenant(rows, name, tenantId) ==
  { r \in rows : r.name = name }

\* RoleModel.findOne({where: {name, [tenant.field]: tenantId}}): the matches.
FindRolesByName(rows, name, tenantId) ==
  { r \in rows : r.name = name /\ r.tenantId = tenantId }

\* Mutant: the lookup by id is not scoped to the tenant.
FindRolesById_AnyTenant(rows, roleId, tenantId) ==
  { r \in rows : r.id = roleId }

\* RoleModel.findOne({where: {id: roleId, [tenant.field]: tenantId}}): the
\* matches (at most one: id is the primary key).
FindRolesById(rows, roleId, tenantId) ==
  { r \in rows : r.id = roleId /\ r.tenantId = tenantId }

\* UserRoleModel.count({where: {roleId}})
RECURSIVE SumOver(_, _)
SumOver(f, S) ==
  IF S = {} THEN 0
  ELSE LET x == CHOOSE y \in S : TRUE IN f[x] + SumOver(f, S \ {x})

\* Mutant: the reference count is not taken (deletion is never blocked).
CountAssignments_Unchecked(asg, roleId) == 0

CountAssignments(asg, roleId) ==
  SumOver(asg, {pr \in DOMAIN asg : pr[2] = roleId})

\* Mutant: the service does not look for an existing assignment.
ExistingAssignment_NotLooked(asg, userId, roleId) == FALSE

\* UserRoleModel.findOne({where: {userId, roleId}}): whether a row is found.
ExistingAssignment(asg, userId, roleId) == asg[<<userId, roleId>>] > 0

\* Mutant: the number of rows destroyed is not looked at.
NotAssigned_Unchecked(deleted) == FALSE

\* `!deleted`, for the number of rows UserRoleModel.destroy removed.
NotAssigned(deleted) == deleted = 0

\* Mutant: the store does not enforce the foreign key of user_roles.role_id.
ForeignKeyHolds_NotEnforced(rows, asg) == TRUE

\* The foreign key user_roles.role_id -> roles.id that the UserRole model
\* declares: every assignment row references a stored role.  The store
\* refuses a write that would leave this false.
ForeignKeyHolds(rows, asg) ==
  \A pr \in DOMAIN asg : asg[pr] > 0 => \E r \in rows : r.id = pr[2]

\* ---------------------------------------------------------- RoleService
\* Mutant: the lookup is by tenant alone and takes a role of the tenant.
getRoleById_FirstOfTenant(rows, roleId, tenantId) ==
  LET found == { r \in rows : r.tenantId = tenantId } IN
  IF found = {} THEN Undefined ELSE Some(CHOOSE r \in found : TRUE)

\* getRoleById(roleId, tenantId): the role, or Undefined for null.
getRoleById(rows, roleId, tenantId) ==
  LET found == FindRolesById(rows, roleId, tenantId) IN
  IF found = {} THEN Undefined ELSE Some(CHOOSE r \in found : TRUE)

\* Mutant: the listing is not filtered by tenant.
RolesOfTenant_All(rows, tenantId) == rows

\* The rows selected by findAll({where: {[tenant.field]: tenantId}}).
RolesOfTenant(rows, tenantId) == { r \in rows : r.tenantId = tenantId }

\* getRolesByTenant(tenantId): the selected rows under ORDER BY createdAt DESC.
\* Rows with equal createdAt come in an order the store chooses, so this is the
\* set of sequences the call may return.
getRolesByTenant(rows, tenantId) ==
  LET sel == RolesOfTenant(rows, tenantId)
      n == Cardinality(sel)
  IN { q \in [1..n -> sel] :
         /\ \A i, j \in 1..n : i # j => q[i] # q[j]
         /\ \A i, j \in 1..n : i < j => q[i].createdAt >= q[j].createdAt }

\* One more RoleService call, within the call budget of a behaviour.
CountCall == calls < MaxCalls /\ calls' = calls + 1 /\ UNCHANGED procs

\* createRole(data, tenantId, createdBy)
CreateRole(data, tenantId) ==
  LET v == validatePermissions(data.permissions)
      existing == FindRolesByName(roles, data.name, tenantId)
  IN
  /\ CountCall
  /\ IF Len(v.invalid) > 0 THEN
       /\ last' = InvalidPermissions("createRole", Undefined, Some(tenantId),
                                     v.invalid)
       /\ UNCHANGED <<roles, nextId, now, createdUnder>>
     ELSE IF existing # {} THEN
       /\ last' = Called("createRole", Undefined, Some(tenantId),
                         ErrDuplicateName)
       /\ UNCHANGED <<roles, nextId, now, createdUnder>>
     ELSE IF ~UniqueIndexAllows(roles, nextId, tenantId, data.name) THEN
       /\ last' = Called("createRole", Undefined, Some(tenantId),
                         ErrUniqueConstraint)
       /\ UNCHANGED <<roles, nextId, now, createdUnder>>
     ELSE
       /\ nextId <= MaxRoles
       /\ UNCHANGED now
       /\ roles' = roles \cup
            { [ id |-> nextId, tenantId |-> tenantId, name |-> data.name,
                description |-> data.description, permissions |-> v.valid,
                createdAt |-> now ] }
       /\ nextId' = nextId + 1
       /\ createdUnder' = createdUnder @@ (nextId :> tenantId)
       /\ last' = Called("createRole", Some(nextId), Some(tenantId), Ok)
  /\ UNCHANGED <<check, http, assignments, everAssigned>>

\* Mutant: the row takes every field of the request, supplied or not (a
\* description that is not supplied clears the stored one).
ApplyUpdate_ReplacesFields(role, data) ==
  [ role EXCEPT
      !.name = IF IsDefined(data.name) THEN Val(data.name) ELSE @,
      !.description = data.description,
      !.permissions = IF IsDefined(data.permissions) THEN Val(data.permissions) ELSE @ ]

\* role.update(data): the row with the supplied fields set.
ApplyUpdate(role, data) ==
  [ role EXCEPT
      !.name = IF IsDefined(data.name) THEN Val(data.name) ELSE @,
      !.description =
         IF IsDefined(data.description) THEN data.description ELSE @,
      !.permissions =
         IF IsDefined(data.permissions) THEN Val(data.permissions) ELSE @ ]

\* `data.name && data.name !== role.name` and the findOne with
\* id: {[Op.ne]: roleId} that follows it.
NameConflict(rows, role, data, tenantId) ==
  /\ TruthyStr(data.name)
  /\ Val(data.name) # role.name
  /\ { r \in FindRolesByName(rows, Val(data.name), tenantId) :
         r.id # role.id } # {}

\* updateRole(roleId, data, tenantId, updatedBy)
UpdateRole(roleId, data, tenantId) ==
  LET found == FindRolesById(roles, roleId, tenantId)
      role == CHOOSE r \in found : TRUE
      v == validatePermissions(Val(data.permissions))
      \* data.permissions = valid
      data2 == IF IsDefined(data.permissions)
               THEN [data EXCEPT !.permissions = Some(v.valid)] ELSE data
      updated == ApplyUpdate(role, data2)
      res ==
        IF found = {} THEN ErrRoleNotFound
        ELSE IF IsDefined(data.permissions) /\ Len(v.invalid) > 0
          THEN ErrInvalidPermissions
        ELSE IF NameConflict(roles, role, data2, tenantId)
          THEN ErrDuplicateName
        ELSE IF ~UniqueIndexAllows(roles, roleId, updated.tenantId,
                                   updated.name)
          THEN ErrUniqueConstraint
        ELSE Ok
  IN
  /\ CountCall
  /\ last' = IF res = ErrInvalidPermissions
             THEN InvalidPermissions("updateRole", Some(roleId),
                                     Some(tenantId), v.invalid)
             ELSE Called("updateRole", Some(roleId), Some(tenantId), res)
  /\ roles' = IF res = Ok THEN (roles \ {role}) \cup {updated} ELSE roles
  /\ UNCHANGED <<check, http, assignments, nextId, now, createdUnder, everAssigned>>

\* deleteRole(roleId, tenantId, deletedBy)
DeleteRole(roleId, tenantId) ==
  LET found == FindRolesById(roles, roleId, tenantId)
      res ==
        IF found = {} THEN ErrRoleNotFound
        ELSE IF CountAssignments(assignments, roleId) > 0 THEN ErrRoleInUse
        ELSE Ok
  IN
  /\ CountCall
  /\ last' = Called("deleteRole", Some(roleId), Some(tenantId), res)
  /\ roles' = IF res = Ok THEN roles \ found ELSE roles
  /\ UNCHANGED <<check, http, assignments, nextId, now, createdUnder, everAssigned>>

\* assignRoleToUser(userId, roleId, tenantId, assignedBy)
AssignRoleToUser(userId, roleId, tenantId) ==
  LET found == FindRolesById(roles, roleId, tenantId)
      res ==
        IF found = {} THEN ErrRoleNotFound
        ELSE IF ExistingAssignment(assignments, userId, roleId)
          THEN ErrAlreadyAssigned
        ELSE Ok
  IN
  /\ CountCall
  /\ last' = Called("assignRoleToUser", Some(roleId), Some(tenantId), res)
  /\ assignments' =
       IF res = Ok
       THEN [assignments EXCEPT ![<<userId, roleId>>] = @ + 1]
       ELSE assignments
  /\ everAssigned' =
       IF res = Ok THEN everAssigned \cup {roleId} ELSE everAssigned
  /\ UNCHANGED <<check, http, roles, nextId, now, createdUnder>>

\* removeRoleFromUser(userId, roleId, tenantId, removedBy)
RemoveRoleFromUser(userId, roleId, tenantId) ==
  LET found == FindRolesById(roles, roleId, tenantId)
      \* UserRoleModel.destroy({where: {userId, roleId}}): rows deleted
      deleted == assignments[<<userId, roleId>>]
      res ==
        IF found = {} THEN ErrRoleNotFound
        ELSE IF NotAssigned(deleted) THEN ErrNotAssigned
        ELSE Ok
  IN
  /\ CountCall
  /\ last' = Called("removeRoleFromUser", Some(roleId), Some(tenantId), res)
  /\ assignments' =
       IF res = Ok THEN [assignments EXCEPT ![<<userId, roleId>>] = 0]
       ELSE assignments
  /\ UNCHANGED <<check, http, roles, nextId, now, createdUnder, everAssigned>>

\* ------------------------------------------- createRole calls in flight
\* An async createRole call gives way at each await: between the store
\* executing its findOne and the store executing its create, other calls run.
Procs == 1..MaxProcs

IdleProc == [ pc |-> "idle", op |-> "none", name |-> "",
              userId |-> Undefined, roleId |-> Undefined,
              tenantId |-> Undefined, permissions |-> <<>>,
              existing |-> FALSE, result |-> Ok ]

\* createRole up to the first await: the permissions are validated and the
\* store executes findOne({where: {name, [tenant.field]: tenantId}}).
CreateRoleFind(p, data, tenantId) ==
  LET v == validatePermissions(data.permissions)
      mine == [ IdleProc EXCEPT !.name = data.name,
                                !.tenantId = Some(tenantId),
                                !.permissions = v.valid ]
  IN
  /\ procs[p].pc = "idle"
  /\ procs' =
       [ procs EXCEPT ![p] =
           IF Len(v.invalid) > 0
           THEN [ mine EXCEPT !.pc = "done",
                              !.result = ErrInvalidPermissions ]
           ELSE [ mine EXCEPT !.pc = "found",
                              !.existing =
                                 (FindRolesByName(roles, data.name, tenantId)
                                    # {}) ] ]
  /\ UNCHANGED <<check, http, roles, assignments, nextId, now, last, createdUnder,
                 everAssigned, calls>>

\* createRole after the first await: the call throws when its lookup found a
\* role; otherwise the store executes the insert, under its unique index.
CreateRoleInsert(p) ==
  LET me == procs[p]
      t == Val(me.tenantId)
      res == IF me.existing THEN ErrDuplicateName
             ELSE IF ~UniqueIndexAllows(roles, nextId, t, me.name)
               THEN ErrUniqueConstraint
             ELSE Ok
  IN
  /\ me.pc = "found"
  /\ procs' = [ procs EXCEPT ![p] = [ me EXCEPT !.pc = "done",
                                                !.result = res ] ]
  /\ IF res = Ok
     THEN /\ roles' = roles \cup
                { [ id |-> nextId, tenantId |-> t, name |-> me.name,
                    description |-> Undefined,
                    permissions |-> me.permissions, createdAt |-> now ] }
          /\ nextId' = nextId + 1
          /\ createdUnder' = createdUnder @@ (nextId :> t)
     ELSE UNCHANGED <<roles, nextId, createdUnder>>
  /\ UNCHANGED <<check, http, assignments, now, last, everAssigned, calls>>

\* ------------------- assignment and deletion calls in flight together
\* deleteRole, assignRoleToUser and removeRoleFromUser all begin with
\* RoleModel.findOne({where: {id: roleId, [tenant.field]: tenantId}}) and
\* throw 'Role not found' on null; the call gives way at that await.
RoleFind(p, op, userId, roleId, tenantId) ==
  LET mine == [ IdleProc EXCEPT !.op = op, !.userId = userId,
                                !.roleId = Some(roleId),
                                !.tenantId = Some(tenantId) ]
  IN
  /\ procs[p].pc = "idle"
  /\ procs' =
       [ procs EXCEPT ![p] =
           IF FindRolesById(roles, roleId, tenantId) = {}
           THEN [ mine EXCEPT !.pc = "done", !.result = ErrRoleNotFound ]
           ELSE [ mine EXCEPT !.pc = "found" ] ]
  /\ UNCHANGED <<check, http, roles, assignments, nextId, now, last, createdUnder,
                 everAssigned, calls>>

\* The call p has returned or thrown.
Return(p, res) ==
  procs' = [ procs EXCEPT ![p] = [ @ EXCEPT !.pc = "done", !.result = res ] ]

\* deleteRole up to its first await.
DeleteRoleFind(p, roleId, tenantId) ==
  RoleFind(p, "deleteRole", Undefined, roleId, tenantId)

\* deleteRole between its first and second await: the store executes
\* UserRoleModel.count({where: {roleId}}).
DeleteRoleCount(p) ==
  LET me == procs[p] IN
  /\ me.pc = "found" /\ me.op = "deleteRole"
  /\ IF CountAssignments(assignments, Val(me.roleId)) > 0
     THEN Return(p, ErrRoleInUse)
     ELSE procs' = [ procs EXCEPT ![p] = [ me EXCEPT !.pc = "counted" ] ]
  /\ UNCHANGED <<check, http, roles, assignments, nextId, now, last, createdUnder,
                 everAssigned, calls>>

\* What the foreign key does when a referenced role row is deleted: the
\* UserRole model declares the reference without an onDelete (NO ACTION: the
\* delete is refused), the belongsToMany association through UserRole sets
\* the column up with the association's default (CASCADE: the referencing
\* rows go with it).
OnDeleteRules == {"NO ACTION", "CASCADE"}

\* deleteRole after its second await: role.destroy(), a DELETE of the row with
\* the role's id (no row when another call has deleted it already).
DeleteRoleDestroy(p, onDelete) ==
  LET me == procs[p]
      remaining == { r \in roles : r.id # Val(me.roleId) }
      cascaded == [ pr \in DOMAIN assignments |->
                      IF pr[2] = Val(me.roleId) THEN 0 ELSE assignments[pr] ]
  IN
  /\ me.pc = "counted"
  /\ IF ForeignKeyHolds(remaining, assignments)
     THEN /\ roles' = remaining
          /\ Return(p, Ok)
          /\ UNCHANGED assignments
     ELSE IF onDelete = "CASCADE"
     THEN /\ roles' = remaining
          /\ assignments' = cascaded
          /\ Return(p, Ok)
     ELSE /\ Return(p, ErrForeignKey)
          /\ UNCHANGED <<roles, assignments>>
  /\ UNCHANGED <<check, http, nextId, now, last, createdUnder, everAssigned, calls>>

\* assignRoleToUser up to its first await.
AssignRoleFind(p, userId, roleId, tenantId) ==
  RoleFind(p, "assignRoleToUser", Some(userId), roleId, tenantId)

\* assignRoleToUser between its first and second await: the store executes
\* UserRoleModel.findOne({where: {userId, roleId}}).
AssignRoleCheck(p) ==
  LET me == procs[p] IN
  /\ me.pc = "found" /\ me.op = "assignRoleToUser"
  /\ IF ExistingAssignment(assignments, Val(me.userId), Val(me.roleId))
     THEN Return(p, ErrAlreadyAssigned)
     ELSE procs' = [ procs EXCEPT ![p] = [ me EXCEPT !.pc = "checked" ] ]
  /\ UNCHANGED <<check, http, roles, assignments, nextId, now, last, createdUnder,
                 everAssigned, calls>>

\* assignRoleToUser after its second await: the store executes
\* UserRoleModel.create({userId, roleId}), under the foreign key (the
\* user_roles table has no unique index: its two indexes are plain).
AssignRoleCreate(p) ==
  LET me == procs[p]
      inserted == [ assignments EXCEPT
                      ![<<Val(me.userId), Val(me.roleId)>>] = @ + 1 ]
  IN
  /\ me.pc = "checked"
  /\ IF ForeignKeyHolds(roles, inserted)
     THEN /\ assignments' = inserted
          /\ everAssigned' = everAssigned \cup {Val(me.roleId)}
          /\ Return(p, Ok)
     ELSE /\ Return(p, ErrForeignKey)
          /\ UNCHANGED <<assignments, everAssigned>>
  /\ UNCHANGED <<check, http, roles, nextId, now, last, createdUnder, calls>>

\* removeRoleFromUser up to its first await.
RemoveRoleFind(p, userId, roleId, tenantId) ==
  RoleFind(p, "removeRoleFromUser", Some(userId), roleId, tenantId)

\* removeRoleFromUser after its first await: the store executes
\* UserRoleModel.destroy({where: {userId, roleId}}) and answers the number of
\* rows it removed.
RemoveRoleDestroy(p) ==
  LET me == procs[p]
      pair == <<Val(me.userId), Val(me.roleId)>>
      deleted == assignments[pair]
  IN
  /\ me.pc = "found" /\ me.op = "removeRoleFromUser"
  /\ assignments' = [ assignments EXCEPT ![pair] = 0 ]
  /\ Return(p, IF NotAssigned(deleted) THEN ErrNotAssigned ELSE Ok)
  /\ UNCHANGED <<check, http, roles, nextId, now, last, createdUnder, everAssigned,
                 calls>>

\* ------------------------------------------------------------------ RBAC
\* The sequences that hold each element of a set once.
Orderings(S) ==
  { q \in [1..Cardinality(S) -> S] :
      \A i, j \in 1..Cardinality(S) : i # j => q[i] # q[j] }

\* Mutant: the include is not filtered by tenant.
IncludedRoles_AnyTenant(rows, asg, userId, tenantId) ==
  { r \in rows : asg[<<userId, r.id>>] > 0 }

\* The include of getUserWithPermissions: the roles joined to the user
\* through user_roles, where the tenant field is tenantId.
IncludedRoles(rows, asg, userId, tenantId) ==
  { r \in rows : r.tenantId = tenantId /\ asg[<<userId, r.id>>] > 0 }

\* Rows of the application's users table for a plain user (of tenant 1): the
\* package reads them with findByPk and does not write them.
PlainUserRows ==
  { x \in Users : /\ x.userType = "user" /\ x.roles = Undefined
                  /\ x.tenant = Some(1) }

\* getUserWithPermissions(userId, tenantId), optRow being what findByPk finds
\* for userId: null, or the user with the included roles and, for
\* permissions, the distinct permissions of those roles. The store returns
\* the included roles in an order it chooses, so this is the set of values
\* the call may return.
getUserWithPermissions(rows, asg, optRow, userId, tenantId) ==
  IF ~IsDefined(optRow) THEN {Undefined}
  ELSE { Some([ Val(optRow) EXCEPT
                  !.roles = Some(q),
                  !.permissions =
                     Some(Collapse(FlattenRolePermissions(q))) ]) :
         q \in Orderings(IncludedRoles(rows, asg, userId, tenantId)) }

\* ---------------------------------------------------- express middleware
\* at is the handler the request waits for: "none" before the request has
\* arrived, the name of a middleware, "handler" or "controller" once every
\* middleware of the route has called next(), "responded" once a middleware
\* has sent a response. status is the status of the response sent, nextCalls
\* the number of calls of next() so far.
NoRequest ==
  [ route |-> "none", at |-> "none", build |-> "none", user |-> Undefined,
    param |-> "", tenantId |-> Undefined, permissions |-> <<>>,
    requireAll |-> FALSE, status |-> Undefined, nextCalls |-> 0 ]

\* What a middleware does with a request: it sends a response with a status
\* (`return res.status(s).json(...)`) or it calls next().
Responds(s) == [status |-> Some(s), nextCalls |-> 0]
CallsNext == [status |-> Undefined, nextCalls |-> 1]

\* The two builds of the package that export requirePermission.
Builds == {"middleware/auth", "working-index"}

\* Mutant: the 403 is sent without `return`, and next() is called after it.
requirePermission_FallsThrough(optUser, permissions, requireAll, tenantId) ==
  IF ~IsDefined(optUser) THEN Responds(401)
  ELSE LET hasAccess ==
             IF requireAll
             THEN userHasAllPermissions(optUser, permissions, tenantId)
             ELSE userHasAnyPermission(optUser, permissions, tenantId)
       IN IF ~hasAccess THEN [status |-> Some(403), nextCalls |-> 1]
          ELSE CallsNext

\* The handler requirePermission(permission, options) returns, run on a
\* request with this user; permissions is the array made of the permission
\* argument, tenantId what the handler passes to the engine.
requirePermission(optUser, permissions, requireAll, tenantId) ==
  IF ~IsDefined(optUser) THEN Responds(401)
  ELSE LET hasAccess ==
             IF requireAll
             THEN userHasAllPermissions(optUser, permissions, tenantId)
             ELSE userHasAnyPermission(optUser, permissions, tenantId)
       IN IF ~hasAccess THEN Responds(403) ELSE CallsNext

\* The request with the outcome of the middleware it waited for; after is
\* what follows that middleware on the route.
Handled(req, outcome, after) ==
  [ req EXCEPT !.status = outcome.status,
               !.nextCalls = @ + outcome.nextCalls,
               !.at = IF outcome.nextCalls > 0 THEN after ELSE "responded" ]

\* A request arrives at a route guarded by requirePermission(permissions,
\* {requireAll}); an earlier middleware may have set req.user and
\* req.tenantId.
ReceiveGuarded(build, optUser, tenantId, permissions, requireAll) ==
  /\ http.at = "none"
  /\ http' = [ NoRequest EXCEPT !.route = "guarded",
                                !.at = "requirePermission",
                                !.build = build, !.user = optUser,
                                !.tenantId = tenantId,
                                !.permissions = permissions,
                                !.requireAll = requireAll ]
  /\ UNCHANGED <<check, storeVars>>

\* requirePermission of middleware/auth: the engine is asked with
\* req.tenantId.
RequirePermission ==
  /\ http.at = "requirePermission" /\ http.build = "middleware/auth"
  /\ http' = Handled(http,
                     requirePermission(http.user, http.permissions,
                                       http.requireAll, http.tenantId),
                     "handler")
  /\ UNCHANGED <<check, storeVars>>

\* requirePermission of working-index: `const tenantId = req.user.shopId`,
\* read once the user is known to be there (shopId is the tenant field). The
\* two list checks of the engine do not throw for a user that is there, so
\* the catch around them is not entered.
RequirePermissionWorking ==
  /\ http.at = "requirePermission" /\ http.build = "working-index"
  /\ http' = Handled(http,
                     requirePermission(http.user, http.permissions,
                                       http.requireAll,
                                       IF IsDefined(http.user)
                                       THEN Val(http.user).tenant
                                       ELSE Undefined),
                     "handler")
  /\ UNCHANGED <<check, storeVars>>

\* The :tenantId segment of a request path.
TenantParams == {"0", "1", "2"}

\* parseInt(s, 10) of a decimal numeral.
ParseInt(s) == CASE s = "0" -> 0 [] s = "1" -> 1 [] s = "2" -> 2

\* extractTenantId('params', 'tenantId'): req.tenantId after the handler.
extractTenantId(req) ==
  IF req.param # "" THEN Some(ParseInt(req.param)) ELSE req.tenantId

\* validateTenantAccess()
validateTenantAccess(optUser, tenantId) ==
  IF ~IsDefined(optUser) THEN Responds(401)
  ELSE IF Val(optUser).userType = "superadmin" THEN CallsNext
  ELSE IF TruthyNum(tenantId) /\ Val(optUser).tenant # tenantId
    THEN Responds(403)
  ELSE CallsNext

\* requireAdmin()
requireAdmin(optUser) ==
  IF ~IsDefined(optUser) THEN Responds(401)
  ELSE IF Val(optUser).userType \notin {"admin", "superadmin"}
    THEN Responds(403)
  ELSE CallsNext

\* A request arrives at a route of createRoleRoutes; an authentication
\* middleware mounted before the router may have set req.user.
ReceiveRoleRequest(optUser, param) ==
  /\ http.at = "none"
  /\ http' = [ NoRequest EXCEPT !.route = "roles",
                                !.at = "extractTenantId",
                                !.build = "middleware/auth",
                                !.user = optUser, !.param = param ]
  /\ UNCHANGED <<check, storeVars>>

ExtractTenantId ==
  /\ http.at = "extractTenantId"
  /\ http' = [ Handled(http, CallsNext, "validateTenantAccess")
                 EXCEPT !.tenantId = extractTenantId(http) ]
  /\ UNCHANGED <<check, storeVars>>

ValidateTenantAccess ==
  /\ http.at = "validateTenantAccess"
  /\ http' = Handled(http, validateTenantAccess(http.user, http.tenantId),
                     "requireAdmin")
  /\ UNCHANGED <<check, storeVars>>

RequireAdmin ==
  /\ http.at = "requireAdmin"
  /\ http' = Handled(http, requireAdmin(http.user), "controller")
  /\ UNCHANGED <<check, storeVars>>

\* -------------------------------------------------------- specifications
StoreInit ==
  /\ roles = {}
  /\ assignments = [pr \in UserIds \X RoleIds |-> 0]
  /\ nextId = 1
  /\ now = 1
  /\ last = NoCall
  /\ createdUnder = <<>>
  /\ everAssigned = {}
  /\ calls = 0
  /\ procs = [p \in Procs |-> IdleProc]

Init == check = NoCheck /\ http = NoRequest /\ StoreInit

\* The engine alone: callers evaluate permission checks.
EngineNext ==
  \E u \in OptUsers, p \in PermissionNames, t \in OptTenant :
    UserHasPermissionCall(u, p, t)

SpecEngine == Init /\ [][EngineNext]_vars

\* The engine's calls, one call per behaviour.
EngineCallsNext ==
  \/ \E u \in OptUsers, p \in PermissionNames, t \in OptTenant :
       DecideCall(u, p, t)
  \/ \E u \in OptUsers, ps \in PermLists, t \in OptTenant :
       UserHasAnyPermissionCall(u, ps, t)
  \/ \E u \in OptUsers, ps \in PermLists, t \in OptTenant :
       UserHasAllPermissionsCall(u, ps, t)
  \/ \E u \in OptUsers : GetUserPermissionsCall(u)
  \/ \E u \in OptUsers, n \in RoleNameArgs : UserHasRoleCall(u, n)
  \/ \E u \in OptUsers, ns \in RoleNameLists : UserHasAnyRoleCall(u, ns)
  \/ \E ps \in PermLists : ValidatePermissionsCall(ps)

SpecEngineCalls == Init /\ [][EngineCallsNext]_vars

\* One decision, asked of the core engine on the server or of the React
\* package's engine in the browser.
ReactNext ==
  \/ \E u \in OptUsers, p \in PermissionNames, t \in OptTenant :
       DecideCall(u, p, t)
  \/ \E u \in OptUsers, p \in PermissionNames, t \in OptTenant :
       SimpleUserHasPermissionCall(u, p, t)

SpecReact == Init /\ [][ReactNext]_vars

\* The RoleService, one call at a time (each call runs to completion).
Next ==
  \/ \E d \in CreateRoleRequests, t \in TenantIds : CreateRole(d, t)
  \/ \E r \in RoleIds, d \in SequenceUpdateRequests, t \in TenantIds :
       UpdateRole(r, d, t)
  \/ \E r \in RoleIds, t \in TenantIds : DeleteRole(r, t)
  \/ \E u \in UserIds, r \in RoleIds, t \in TenantIds :
       AssignRoleToUser(u, r, t)
  \/ \E u \in UserIds, r \in RoleIds, t \in TenantIds :
       RemoveRoleFromUser(u, r, t)

Spec == Init /\ [][Next]_vars

\* createRole calls whose awaits interleave.
ConcNext ==
  \/ \E p \in Procs, d \in CreateRoleRequests, t \in TenantIds :
       CreateRoleFind(p, d, t)
  \/ \E p \in Procs : CreateRoleInsert(p)

SpecConc == Init /\ [][ConcNext]_vars

\* The store after createRole({name: "Manager", permissions: []}, 1), which
\* returned role 1, and assignRoleToUser(u, 1, 1) for each user u of holders.
StoreWithRole(holders) ==
  /\ roles = { [ id |-> 1, tenantId |-> 1, name |-> "Manager",
                 description |-> Undefined, permissions |-> <<>>,
                 createdAt |-> 1 ] }
  /\ assignments = [ pr \in UserIds \X RoleIds |->
                       IF pr[2] = 1 /\ pr[1] \in holders THEN 1 ELSE 0 ]
  /\ nextId = 2
  /\ now = 1
  /\ last = IF holders = {} THEN Called("createRole", Some(1), Some(1), Ok)
            ELSE Called("assignRoleToUser", Some(1), Some(1), Ok)
  /\ createdUnder = (1 :> 1)
  /\ everAssigned = IF holders = {} THEN {} ELSE {1}
  /\ calls = 1 + Cardinality(holders)
  /\ procs = [p \in Procs |-> IdleProc]

InitRace ==
  /\ check = NoCheck /\ http = NoRequest
  /\ \E holders \in SUBSET UserIds : StoreWithRole(holders)

\* The (role id, tenant id) pairs callers address: ids the service has handed
\* out, each under the tenant it was created for.
RaceTargets == { <<r, createdUnder[r]>> : r \in DOMAIN createdUnder }

\* deleteRole, assignRoleToUser and removeRoleFromUser calls whose awaits
\* interleave.
RaceNext ==
  \/ \E p \in Procs, g \in RaceTargets : DeleteRoleFind(p, g[1], g[2])
  \/ \E p \in Procs : DeleteRoleCount(p)
  \/ \E p \in Procs, rule \in OnDeleteRules : DeleteRoleDestroy(p, rule)
  \/ \E p \in Procs, u \in UserIds, g \in RaceTargets :
       AssignRoleFind(p, u, g[1], g[2])
  \/ \E p \in Procs : AssignRoleCheck(p)
  \/ \E p \in Procs : AssignRoleCreate(p)
  \/ \E p \in Procs, u \in UserIds, g \in RaceTargets :
       RemoveRoleFind(p, u, g[1], g[2])
  \/ \E p \in Procs : RemoveRoleDestroy(p)

SpecRace == InitRace /\ [][RaceNext]_vars

\* createRole requests with and without a description, for one permission.
DescribedCreateRoleRequests ==
  [ name : RoleNames, description : Descriptions,
    permissions : { <<"orders.view">> } ]

\* updateRole requests on a role created with the permission "orders.view":
\* each field absent or supplied, the permissions with a new list or with a
\* list that holds an unknown identifier.
FrameUpdateRequests ==
  [ name : {Undefined} \cup {Some(n) : n \in RoleNames},
    description : Descriptions,
    permissions : { Undefined, Some(<<>>),
                    Some(<<"orders.view", "bogus.permission">>) } ]

\* No updateRole call has ended the sequence of calls.
BeforeUpdate == last.op # "updateRole"

\* A sequence of createRole and assignRoleToUser calls, one at a time, and
\* an updateRole call, of any request, after it.
UpdateNext ==
  \/ \E d \in DescribedCreateRoleRequests, t \in TenantIds :
       BeforeUpdate /\ CreateRole(d, t)
  \/ \E u \in UserIds, r \in RoleIds, t \in TenantIds :
       BeforeUpdate /\ AssignRoleToUser(u, r, t)
  \/ \E r \in RoleIds, d \in FrameUpdateRequests, t \in TenantIds :
       BeforeUpdate /\ UpdateRole(r, d, t)

SpecUpdate == Init /\ [][UpdateNext]_vars

\* Time passes between two calls: the clock whose reading an insert stamps
\* into createdAt moves on by a millisecond.
ClockTick ==
  /\ now < MaxClock
  /\ now' = now + 1
  /\ UNCHANGED <<check, http, roles, assignments, nextId, last, createdUnder,
                 everAssigned, calls, procs>>

\* createRole, updateRole and deleteRole calls, one at a time, any time apart
\* (none included).
ListNext ==
  \/ ClockTick
  \/ \E d \in CreateRoleRequests, t \in TenantIds : CreateRole(d, t)
  \/ \E r \in RoleIds, d \in SequenceUpdateRequests, t \in TenantIds :
       UpdateRole(r, d, t)
  \/ \E r \in RoleIds, t \in TenantIds : DeleteRole(r, t)

SpecList == Init /\ [][ListNext]_vars

\* req.user as the authentication middleware sets it: no user, or a user
\* loaded without roles.
RequestUsers ==
  {Undefined} \cup { Some(u) : u \in { x \in Users : x.roles = Undefined } }

\* One request to a route guarded by requirePermission.
GuardedNext ==
  \/ \E b \in Builds, u \in RequestUsers, t \in OptTenant, ps \in PermLists,
        all \in BOOLEAN : ReceiveGuarded(b, u, t, ps, all)
  \/ RequirePermission
  \/ RequirePermissionWorking

\* Express runs the handler of a request that has arrived.
SpecGuarded ==
  /\ Init /\ [][GuardedNext]_vars
  /\ WF_vars(RequirePermission) /\ WF_vars(RequirePermissionWorking)

\* One request to a route of createRoleRoutes, through the middleware of the
\* route in the order they are mounted.
RoutesNext ==
  \/ \E u \in RequestUsers, s \in TenantParams : ReceiveRoleRequest(u, s)
  \/ ExtractTenantId
  \/ ValidateTenantAccess
  \/ RequireAdmin

SpecRoutes == Init /\ [][RoutesNext]_vars

\* createRole requests over every permission list callers pass.
AnyListCreateRoleRequests ==
  [ name : RoleNames, description : {Undefined},
    permissions : PermLists \cup
      { <<"bogus.permission", "orders.edit", "bogus.permission">> } ]

\* createRole calls alone, one at a time.
CreateNext ==
  \E d \in AnyListCreateRoleRequests, t \in TenantIds : CreateRole(d, t)

SpecCreate == Init /\ [][CreateNext]_vars

\* ------------------------------------------- claims on the RoleService
\* The role id and the tenant id of the call that `last` records.
LastRole == Val(last.roleId)
LastTenant == Val(last.tenantId)
StoredIds(rows) == { r.id : r \in rows }
CatalogNames == {"orders.view", "orders.edit"}

\* C5: a role created under tenant T1 is never returned by
\* getRoleById(id, T2) nor listed by getRolesByTenant(T2) for T2 # T1,
\* whatever calls were made since.
C5_CrossTenantIsolation ==
  \A id \in DOMAIN createdUnder :
    \A t2 \in TenantIds \ {createdUnder[id]} :
      /\ getRoleById(roles, id, t2) = Undefined
      /\ \A q \in getRolesByTenant(roles, t2) :
           \A i \in DOMAIN q : q[i].id # id

\* A role created under tenant 1 is stored and was just updated, while
\* tenant 2 has a role of its own to list.
C5_Witness ==
  /\ last.op = "updateRole" /\ last.result = Ok
  /\ LastRole \in DOMAIN createdUnder /\ createdUnder[LastRole] = 1
  /\ getRoleById(roles, LastRole, 1) # Undefined
  /\ RolesOfTenant(roles, 2) # {}

\* C6: updateRole, deleteRole, assignRoleToUser and removeRoleFromUser fail
\* with 'Role not found' and change no role and no assignment, both for a
\* role id that does not exist and for one that exists under another
\* tenant; getRoleById returns null in both cases.
ScopedOps ==
  {"updateRole", "deleteRole", "assignRoleToUser", "removeRoleFromUser"}

C6_ForeignRoleLikeMissingRole ==
  [][ ( /\ calls' = calls + 1
        /\ last'.op \in ScopedOps
        /\ \/ Val(last'.roleId) \notin StoredIds(roles)
           \/ \E r \in roles : /\ r.id = Val(last'.roleId)
                               /\ r.tenantId # Val(last'.tenantId) )
      => ( /\ last'.result = ErrRoleNotFound
           /\ roles' = roles
           /\ assignments' = assignments
           /\ getRoleById(roles, Val(last'.roleId), Val(last'.tenantId))
                = Undefined ) ]_vars

\* A deleteRole on a role that exists, unassigned, under the other tenant
\* was answered 'Role not found';
C6_Witness ==
  /\ last.op = "deleteRole" /\ last.result = ErrRoleNotFound
  /\ \E r \in roles : r.id = LastRole /\ r.tenantId # LastTenant
  /\ \A u \in UserIds : assignments[<<u, LastRole>>] = 0

\* C7: no two stored roles of one tenant have the same name (the empty name
\* included); roles of different tenants may.
C7_NameUniquePerTenant ==
  \A r1, r2 \in roles :
    (r1.id # r2.id /\ r1.tenantId = r2.tenantId) => r1.name # r2.name

\* An updateRole renaming a role to the empty name, which the service does
\* not check, was refused by the store because a role of that tenant
\* already has the empty name.
C7_Witness ==
  /\ last.op = "updateRole" /\ last.result = ErrUniqueConstraint
  /\ \E r1, r2 \in roles :
       /\ r1.id = LastRole /\ r2.id # r1.id
       /\ r1.tenantId = r2.tenantId
       /\ r2.name = "" /\ r1.name = "Manager"

\* C8: createRole (with catalogued permissions) under a name that a role of
\* the same tenant already has fails with the duplicate-name error and stores
\* nothing; when only roles of other tenants have that name it succeeds and
\* stores the role.
C8_DuplicateNameRejectedPerTenant ==
  [][ \A d \in CreateRoleRequests, t \in TenantIds :
        ( /\ \A i \in 1..Len(d.permissions) :
               d.permissions[i] \in CatalogNames
          /\ last'.op = "createRole"
          /\ CreateRole(d, t) )
        => IF \E r \in roles : r.tenantId = t /\ r.name = d.name
           THEN /\ last'.result = ErrDuplicateName
                /\ roles' = roles
           ELSE /\ last'.result = Ok
                /\ \E r \in roles' \ roles :
                     /\ r.name = d.name /\ r.tenantId = t
                     /\ roles' = roles \cup {r} ]_vars

\* A createRole was refused as a duplicate while the same name is stored
\* under both tenants: the create under the other tenant had succeeded.
C8_Witness ==
  /\ last.op = "createRole" /\ last.result = ErrDuplicateName
  /\ \E r1, r2 \in roles :
       /\ r1.name = r2.name /\ r1.tenantId # r2.tenantId
       /\ r1.tenantId = LastTenant

\* C10: deleteRole on a role of the tenant fails as 'in use' while an
\* assignment references the role, changing no role and no assignment; with
\* no assignment left (each removed by removeRoleFromUser) it succeeds and
\* the role is gone.
C10_DeleteBlockedWhileAssigned ==
  [][ ( /\ calls' = calls + 1
        /\ last'.op = "deleteRole"
        /\ \E r \in roles : /\ r.id = Val(last'.roleId)
                            /\ r.tenantId = Val(last'.tenantId) )
      => IF \E u \in UserIds : assignments[<<u, Val(last'.roleId)>>] > 0
         THEN /\ last'.result = ErrRoleInUse
              /\ roles' = roles
              /\ assignments' = assignments
         ELSE /\ last'.result = Ok
              /\ Val(last'.roleId) \notin StoredIds(roles')
              /\ assignments' = assignments ]_vars

\* A role that had been assigned, and whose assignment was removed, was
\* deleted.
C10_Witness ==
  /\ last.op = "deleteRole" /\ last.result = Ok
  /\ LastRole \in everAssigned
  /\ LastRole \notin StoredIds(roles)

\* C14: for a role of the calling tenant, assignRoleToUser on a pair that is
\* assigned fails with 'User already has this role' and removeRoleFromUser
\* on a pair that is not assigned fails with 'User does not have this role';
\* both failures leave the assignments as they were.
C14_RedundantTransitionRejected ==
  [][ \A u \in UserIds, r \in RoleIds, t \in TenantIds :
        (\E x \in roles : x.id = r /\ x.tenantId = t) =>
          /\ ( /\ assignments[<<u, r>>] > 0
                /\ last'.op = "assignRoleToUser"
                /\ AssignRoleToUser(u, r, t) )
               => ( /\ last'.result = ErrAlreadyAssigned
                    /\ assignments' = assignments )
          /\ ( /\ assignments[<<u, r>>] = 0
                /\ last'.op = "removeRoleFromUser"
                /\ RemoveRoleFromUser(u, r, t) )
               => ( /\ last'.result = ErrNotAssigned
                    /\ assignments' = assignments ) ]_vars

\* A second assignRoleToUser for a pair that is assigned was refused and the
\* pair still has its one row.
C14_Witness ==
  /\ last.op = "assignRoleToUser" /\ last.result = ErrAlreadyAssigned
  /\ \E u \in UserIds : assignments[<<u, LastRole>>] = 1
  /\ LastRole \in StoredIds(roles)

\* C15: createRole with a permission list that holds at least one identifier
\* that is not in the catalog fails with the invalid-permissions error, the
\* error names exactly the identifiers of the list that are not in the
\* catalog (in the order and number they have in the list), and no role is
\* stored: the rest of the list is not applied.
C15_InvalidPermissionsRejectedWhole ==
  [][ \A d \in AnyListCreateRoleRequests, t \in TenantIds :
        ( /\ \E i \in 1..Len(d.permissions) :
               d.permissions[i] \notin CatalogNames
          /\ last'.op = "createRole"
          /\ CreateRole(d, t) )
        => /\ last'.result = ErrInvalidPermissions
           /\ last'.invalid =
                SelectSeq(d.permissions, LAMBDA s : s \notin CatalogNames)
           /\ roles' = roles
           /\ nextId' = nextId ]_vars

\* A createRole asking for orders.view and bogus.permission was refused,
\* naming bogus.permission only; the roles stored are those of the earlier
\* calls, none of them with the permissions of the refused one.
C15_Witness ==
  /\ last.op = "createRole" /\ last.result = ErrInvalidPermissions
  /\ last.invalid = <<"bogus.permission">>
  /\ roles # {}
  /\ \A r \in roles : r.permissions = <<>>

\* C16: after any sequence of RoleService calls every permission identifier
\* stored in a role is a shortName of the catalog, and an updateRole that is
\* rejected for invalid permissions leaves every role as it was.
C16_StoredPermissionsInCatalog ==
  /\ [] ( \A r \in roles : \A i \in 1..Len(r.permissions) :
            r.permissions[i] \in CatalogNames )
  /\ [][ ( /\ calls' = calls + 1
           /\ last'.op = "updateRole"
           /\ last'.result = ErrInvalidPermissions )
         => roles' = roles ]_vars

\* An updateRole with an uncatalogued identifier in its list was rejected;
\* the role it addressed is stored with the permissions it had.
C16_Witness ==
  /\ last.op = "updateRole" /\ last.result = ErrInvalidPermissions
  /\ \E r \in roles : r.id = LastRole /\ r.permissions = <<"orders.view">>

\* The stored role with the given id.
RoleRow(rows, roleId) == CHOOSE r \in rows : r.id = roleId

C23_EmptyNameRejected ==
  [][ \A d \in AnyListCreateRoleRequests, t \in TenantIds :
        ( /\ d.name = ""
          /\ last'.op = "createRole"
          /\ CreateRole(d, t) )
        => /\ last'.result # Ok
           /\ roles' = roles
           /\ nextId' = nextId ]_vars

\* C24: a createRole that succeeds is read back by getRoleById with the id
\* it returned and its tenant as a role with the name and the permissions of
\* the request, and what getRoleById returns for a stored role stays the
\* same over every call that is not an updateRole or deleteRole of that role.
C24_CreatedRoleReadBack ==
  [][ /\ \A d \in CreateRoleRequests, t \in TenantIds :
           ( /\ last'.op = "createRole" /\ last'.result = Ok
             /\ last'.tenantId = Some(t)
             /\ CreateRole(d, t) )
           => LET got == getRoleById(roles', Val(last'.roleId), t) IN
              /\ IsDefined(got)
              /\ Val(got).id = Val(last'.roleId)
              /\ Val(got).name = d.name
              /\ Val(got).permissions = d.permissions
      /\ \A r \in StoredIds(roles), t \in TenantIds :
           ~( /\ last'.op \in {"updateRole", "deleteRole"}
              /\ last'.roleId = Some(r) )
           => getRoleById(roles', r, t) = getRoleById(roles, r, t) ]_vars

\* The role "Manager" with the permission orders.view has just been created
\* in a tenant that had a role already, and getRoleById returns it.
C24_Witness ==
  /\ last.op = "createRole" /\ last.result = Ok
  /\ LET got == getRoleById(roles, LastRole, LastTenant) IN
     /\ IsDefined(got)
     /\ Val(got).name = "Manager"
     /\ Val(got).permissions = <<"orders.view">>
     /\ \E y \in roles : y.id # LastRole /\ y.tenantId = LastTenant

\* C25: every list getRolesByTenant(T) may return holds exactly the stored
\* roles of tenant T, each once, and a role created later (ids are handed
\* out in order of creation) stands before every role created earlier.
C25_NewestCreatedFirst ==
  \A t \in TenantIds : \A q \in getRolesByTenant(roles, t) :
    /\ { q[i] : i \in DOMAIN q } = RolesOfTenant(roles, t)
    /\ \A i, j \in DOMAIN q : i < j => q[i].id > q[j].id

\* C9: among createRole calls in flight together with the same name and
\* tenant, there are never two successes and never two stored roles of that
\* tenant and name; once they have all returned, exactly one has succeeded and
\* every other has failed as a duplicate. (C9_LoserGetsDuplicateNameError
\* states the kind of that failure as claimed; C9_ExactlyOneWinner as amended.)
SameCreate(p, q) ==
  /\ procs[p].name = procs[q].name
  /\ procs[p].tenantId = procs[q].tenantId

\* The calls that passed validation with the name and tenant of call p.
Rivals(p) ==
  { q \in Procs : /\ procs[q].pc # "idle"
                  /\ procs[q].result # ErrInvalidPermissions
                  /\ SameCreate(p, q) }

NoTwoWinners ==
  /\ \A p, q \in Procs :
       ( p # q /\ SameCreate(p, q)
         /\ procs[p].pc = "done" /\ procs[q].pc = "done"
         /\ procs[p].result = Ok )
       => procs[q].result # Ok
  /\ \A r1, r2 \in roles :
       (r1.id # r2.id /\ r1.tenantId = r2.tenantId) => r1.name # r2.name

OneWinner(p, failures) ==
  ( /\ procs[p].pc = "done"
    /\ procs[p].result # ErrInvalidPermissions
    /\ \A q \in Rivals(p) : procs[q].pc = "done" )
  => /\ Cardinality({q \in Rivals(p) : procs[q].result = Ok}) = 1
     /\ \A q \in Rivals(p) : procs[q].result \in {Ok} \cup failures

C11_NoOrphanedAssignment ==
  \A u \in UserIds, r \in RoleIds :
    assignments[<<u, r>>] > 0 => r \in StoredIds(roles)

\* A deleteRole and an assignRoleToUser on the same role both passed their
\* checks before either wrote: the delete went through and the insert that
\* followed it was refused by the foreign key.
C11_Witness ==
  \E p, q \in Procs :
    /\ procs[p].op = "deleteRole" /\ procs[q].op = "assignRoleToUser"
    /\ procs[p].roleId = procs[q].roleId
    /\ procs[p].pc = "done" /\ procs[p].result = Ok
    /\ procs[q].pc = "done" /\ procs[q].result = ErrForeignKey
    /\ Val(procs[p].roleId) \notin StoredIds(roles)

\* Calls p and q are two calls of operation op for the same user and role,
\* both have returned, and no other call has been made.
TwoCallsAlone(p, q, op) ==
  /\ p # q
  /\ procs[p].op = op /\ procs[q].op = op
  /\ procs[p].userId = procs[q].userId
  /\ procs[p].roleId = procs[q].roleId
  /\ procs[p].pc = "done" /\ procs[q].pc = "done"
  /\ \A k \in Procs \ {p, q} : procs[k].pc = "idle"

\* The <<userId, roleId>> pair of call p.
PairOf(p) == <<Val(procs[p].userId), Val(procs[p].roleId)>>

\* C12: when two assignRoleToUser calls for the same (userId, roleId) run
\* concurrently, interleaved in any way, and have returned, the store holds
\* one row for the pair, at most one of the calls has succeeded and every
\* call that failed has failed with 'User already has this role' (so exactly
\* one succeeds when the pair was not assigned before).
C12_OneAssignmentPerPair ==
  \A p, q \in Procs :
    TwoCallsAlone(p, q, "assignRoleToUser") =>
      /\ assignments[PairOf(p)] = 1
      /\ ~(procs[p].result = Ok /\ procs[q].result = Ok)
      /\ {procs[p].result, procs[q].result} \subseteq {Ok, ErrAlreadyAssigned}

\* C13: when two removeRoleFromUser calls for the same (userId, roleId) run
\* concurrently, interleaved in any way, the destroy of a call succeeds
\* exactly when it finds the assignment, and leaves none; once both calls
\* have returned, at most one has succeeded, a call that failed has failed
\* with 'User does not have this role', and the pair is not assigned.  So
\* for an existing assignment exactly one call succeeds.
C13_OneRemovalSucceeds ==
  /\ [] ( \A p, q \in Procs :
            TwoCallsAlone(p, q, "removeRoleFromUser") =>
              /\ ~(procs[p].result = Ok /\ procs[q].result = Ok)
              /\ {procs[p].result, procs[q].result}
                   \subseteq {Ok, ErrNotAssigned}
              /\ assignments[PairOf(p)] = 0 )
  /\ [][ \A p \in Procs :
           ( /\ procs[p].op = "removeRoleFromUser"
             /\ procs[p].pc = "found" /\ procs'[p].pc = "done" )
           => /\ (procs'[p].result = Ok) = (assignments[PairOf(p)] > 0)
              /\ procs'[p].result \in {Ok, ErrNotAssigned}
              /\ assignments'[PairOf(p)] = 0 ]_vars

\* Two removeRoleFromUser calls for an assignment that existed have
\* returned: one succeeded, the other was told the user does not have the
\* role.
C13_Witness ==
  /\ TwoCallsAlone(1, 2, "removeRoleFromUser")
  /\ Val(procs[1].roleId) \in everAssigned
  /\ {procs[1].result, procs[2].result} = {Ok, ErrNotAssigned}

\* ------------------------------------------------- claims on the engine
\* The user of the last check, when one was passed.
CheckedUser == Val(check.user)
CheckedIs(type) ==
  check.called /\ IsDefined(check.user) /\ CheckedUser.userType = type

\* C1: for an admin whose tenant field is T, a check with an explicitly
\* supplied tenantId different from T (0 included) is denied, whatever the
\* admin's own permission list holds.
C1_AdminDeniedInOtherTenant ==
  ( CheckedIs("admin") /\ IsDefined(CheckedUser.tenant)
    /\ IsDefined(check.tenantId) /\ check.tenantId # CheckedUser.tenant )
  => check.result = FALSE

\* C2: for an admin whose tenant field is T, every permission is granted
\* when the check names tenant T and when it names no tenant at all.
C2_AdminBypassInOwnTenant ==
  ( CheckedIs("admin") /\ IsDefined(CheckedUser.tenant)
    /\ (check.tenantId = CheckedUser.tenant \/ check.tenantId = Undefined) )
  => check.result = TRUE

\* An admin of tenant 1 was granted, in tenant 1, a permission that is neither
\* in the catalog nor in the admin's list; the explicit-tenant case of the bypass.
C2_Witness ==
  /\ CheckedIs("admin")
  /\ CheckedUser.tenant = Some(1)
  /\ check.tenantId = Some(1)
  /\ check.permission = "bogus.permission"
  /\ CheckedUser.permissions = Some(<<"orders.view">>)
  /\ check.result = TRUE

\* C3: a superadmin is granted every permission, in the catalog or not, for
\* every tenantId, supplied or not, equal to the user's tenant or not.
C3_SuperadminAlwaysAllowed ==
  CheckedIs("superadmin") => check.result = TRUE

\* A superadmin of tenant 1 was granted an uncatalogued permission in tenant 2.
C3_Witness ==
  /\ CheckedIs("superadmin")
  /\ CheckedUser.tenant = Some(1)
  /\ check.tenantId = Some(2)
  /\ check.permission = "bogus.permission"
  /\ CheckedUser.permissions = Undefined
  /\ check.result = TRUE

\* C4: for a plain user the decision is exactly membership of the permission
\* in the user's direct permission list (a missing list counts as empty):
\* roles, catalog and tenant argument grant nothing.
C4_PlainUserExactlyDirectPermissions ==
  CheckedIs("user") =>
    ( check.result =
        ( /\ IsDefined(CheckedUser.permissions)
          /\ check.permission \in
               { Val(CheckedUser.permissions)[i] :
                   i \in 1..Len(Val(CheckedUser.permissions)) } ) )

\* A plain user holding a role that contains orders.view, but with no
\* permission list, was denied orders.view in the user's own tenant.
C4_Witness ==
  /\ CheckedIs("user")
  /\ CheckedUser.permissions = Undefined
  /\ CheckedUser.roles # Undefined /\ Val(CheckedUser.roles) # <<>>
  /\ check.permission = "orders.view"
  /\ check.tenantId = CheckedUser.tenant
  /\ check.result = FALSE

\* The call that `check` records is a call of method op on a present user of
\* the given type.
CalledOn(op, type) ==
  /\ check.called /\ check.op = op
  /\ IsDefined(check.user) /\ CheckedUser.userType = type

\* The elements of a list.
Elements(arr) == { arr[i] : i \in 1..Len(arr) }

\* C17: userHasAnyPermission(user, permissions, tenantId) is true exactly
\* when userHasPermission(user, p, tenantId) is true for at least one p of
\* the list; for the empty list it is false, for a superadmin and an admin
\* as for every other user.
C17_AnyIsExistsOverList ==
  (check.called /\ check.op = "userHasAnyPermission") =>
    /\ check.result =
         ( \E p \in Elements(check.names) :
              userHasPermission(check.user, p, check.tenantId) )
    /\ (check.names = <<>> => check.result = FALSE)

\* A superadmin was refused on the empty list.
C17_Witness ==
  /\ CalledOn("userHasAnyPermission", "superadmin")
  /\ check.names = <<>>
  /\ check.result = FALSE

\* C18: userHasAllPermissions(user, permissions, tenantId) is true exactly
\* when userHasPermission(user, p, tenantId) is true for every p of the list;
\* for the empty list it is true.
C18_AllIsForallOverList ==
  (check.called /\ check.op = "userHasAllPermissions") =>
    /\ check.result =
         ( \A p \in Elements(check.names) :
              userHasPermission(check.user, p, check.tenantId) )
    /\ (check.names = <<>> => check.result = TRUE)

\* A plain user without permissions was granted the empty list, and is denied
\* each single permission.
C18_Witness ==
  /\ CalledOn("userHasAllPermissions", "user")
  /\ CheckedUser.permissions = Undefined
  /\ check.names = <<>>
  /\ check.result = TRUE
  /\ \A p \in PermissionNames :
       ~userHasPermission(check.user, p, check.tenantId)

\* C19: getUserPermissions(user) returns the shortNames of the whole catalog
\* for a superadmin and for an admin.  For a plain user it returns, as
\* claimed (C19_PlainUserGetsUnionWithRoles), the union of the user's
\* permissions and the permissions of every role in user.roles; as amended
\* (C19_PlainUserGetsOwnPermissions), the user's own permission list alone,
\* empty when the user has none.
RolePermissionsOf(user) ==
  IF IsDefined(user.roles)
  THEN Elements(FlattenRolePermissions(Val(user.roles))) ELSE {}

BypassUserGetsCatalog ==
  ( CalledOn("getUserPermissions", "superadmin")
    \/ CalledOn("getUserPermissions", "admin") )
  => Elements(check.returned) = CatalogNames

DecisionCalls ==
  { "userHasPermission", "userHasAnyPermission", "userHasAllPermissions",
    "userHasRole", "userHasAnyRole" }

C20_DecisionCallsNeverThrow ==
  (check.called /\ check.op \in DecisionCalls) =>
    (~check.threw /\ check.result \in BOOLEAN)

\* The number of times x occurs in a list.
Occurrences(arr, x) == Cardinality({ i \in 1..Len(arr) : arr[i] = x })

\* No identifier occurs twice in the list.
NoRepeats(arr) == \A i, j \in 1..Len(arr) : arr[i] = arr[j] => i = j

\* valid holds inputs of the catalog only, invalid inputs outside it only,
\* and every input identifier is in exactly one of them.
SplitsByCatalog ==
  /\ Elements(check.returned) = Elements(check.names) \cap CatalogNames
  /\ Elements(check.rejected) = Elements(check.names) \ CatalogNames

\* A validatePermissions call on the input of the validatePermissions call
\* before it gives the result of that call.
SameInputSamePartition ==
  [][ ( check.op = "validatePermissions"
        /\ check'.op = "validatePermissions"
        /\ check'.names = check.names )
      => ( check'.returned = check.returned
           /\ check'.rejected = check.rejected ) ]_vars

\* C21: validatePermissions partitions its input by the catalog and gives
\* the same partition for the same input.  As claimed
\* (C21_PartitionCollapsesDuplicates) an identifier repeated in the input is
\* reported once; as amended (C21_PartitionKeepsOccurrences) every occurrence
\* of the input is reported, in input order: an identifier is in valid or in
\* invalid as often as the input has it.
C21_PartitionCollapsesDuplicates ==
  /\ [] ( (check.called /\ check.op = "validatePermissions") =>
            /\ SplitsByCatalog
            /\ NoRepeats(check.returned)
            /\ NoRepeats(check.rejected) )
  /\ SameInputSamePartition

C21_PartitionKeepsOccurrences ==
  /\ [] ( (check.called /\ check.op = "validatePermissions") =>
            /\ SplitsByCatalog
            /\ \A x \in PermissionNames :
                 Occurrences(check.returned, x)
                   + Occurrences(check.rejected, x)
                   = Occurrences(check.names, x)
            /\ check.returned =
                 SelectSeq(check.names, LAMBDA s : s \in CatalogNames)
            /\ check.rejected =
                 SelectSeq(check.names, LAMBDA s : s \notin CatalogNames) )
  /\ SameInputSamePartition

\* orders.view, given twice, was reported twice as valid.
C21_Witness ==
  /\ check.called /\ check.op = "validatePermissions"
  /\ check.names = <<"orders.view", "orders.view">>
  /\ check.returned = <<"orders.view", "orders.view">>
  /\ check.rejected = <<>>

\* The permissions of the roles of tenant t that user u is assigned.
HeldThroughRoles(u, t) ==
  UNION { Elements(r.permissions) :
          r \in { x \in roles : /\ x.tenantId = t
                                 /\ assignments[<<u, x.id>>] > 0 } }

\* C29: after every sequence of RoleService calls, a plain user loaded with
\* getUserWithPermissions(u, t) carries as permissions exactly the
\* permissions of the roles of tenant t that u is assigned at that time, and
\* userHasPermission on the loaded user is true for exactly those: true once
\* a role holding p is assigned, false again once the assignment is removed
\* or updateRole has taken p from the role.
C29_LoadedUserHoldsAssignedRoles ==
  \A u \in UserIds, t \in TenantIds :
    LET held == HeldThroughRoles(u, t) IN
    \A row \in PlainUserRows :
      \A loaded \in getUserWithPermissions(roles, assignments, Some(row),
                                           u, t) :
        /\ IsDefined(loaded)
        /\ Elements(Val(Val(loaded).permissions)) = held
        /\ \A p \in PermissionNames :
             userHasPermission(loaded, p, Some(t)) = (p \in held)

\* A role holding orders.view was assigned to a user and the assignment has
\* just been removed: the user loaded now is denied orders.view, whatever
\* permissions the user's own row carries.
C29_Witness ==
  /\ last.op = "removeRoleFromUser" /\ last.result = Ok
  /\ LastRole \in everAssigned
  /\ \E r \in roles : r.id = LastRole /\ r.permissions = <<"orders.view">>
  /\ \A u \in UserIds, row \in PlainUserRows :
       \A loaded \in getUserWithPermissions(roles, assignments, Some(row), u,
                                            LastTenant) :
         ~userHasPermission(loaded, "orders.view", last.tenantId)

\* C30: what SimplePermissionEngine.userHasPermission of the React package
\* returns for a user, a permission and a tenantId is what the core
\* PermissionEngine.userHasPermission returns for them.
C30_ReactEngineAgreesWithCore ==
  ( check.called /\ check.op = "SimplePermissionEngine.userHasPermission" )
  => check.result =
       userHasPermission(check.user, check.permission, check.tenantId)

\* C28: for an absent user, userHasPermission, userHasAnyPermission and
\* userHasAllPermissions return false, whatever the permission, the list
\* (the empty list included) and the tenantId.
C28_AbsentUserDenied ==
  ( /\ check.called
    /\ check.op \in { "userHasPermission", "userHasAnyPermission",
                      "userHasAllPermissions" }
    /\ ~IsDefined(check.user) )
  => check.result = FALSE

\* ------------------------------------------------------------ middleware
\* The request has been through requirePermission.
GuardedDone ==
  http.route = "guarded" /\ http.at \in {"handler", "responded"}

\* What the engine answers to the check requirePermission makes for the
\* request: userHasAllPermissions when requireAll is set,
\* userHasAnyPermission otherwise.
EngineGrants ==
  LET tid == IF http.build = "working-index" THEN Val(http.user).tenant
             ELSE http.tenantId
  IN IF http.requireAll
     THEN userHasAllPermissions(http.user, http.permissions, tid)
     ELSE userHasAnyPermission(http.user, http.permissions, tid)

\* C26: a request that arrives at requirePermission gets exactly one
\* outcome, and it does get one: a 401 response and no next() when the
\* request has no user, a 403 response and no next() when the engine denies
\* the check, one call of next() and no response otherwise.
C26_ExactlyOneOutcome ==
  /\ [] ( http.route = "guarded" =>
            /\ http.nextCalls <= 1
            /\ ~GuardedDone => ~IsDefined(http.status) /\ http.nextCalls = 0
            /\ GuardedDone =>
                 IF ~IsDefined(http.user)
                 THEN http.status = Some(401) /\ http.nextCalls = 0
                 ELSE IF ~EngineGrants
                 THEN http.status = Some(403) /\ http.nextCalls = 0
                 ELSE ~IsDefined(http.status) /\ http.nextCalls = 1
                      /\ http.at = "handler" )
  /\ ( http.at = "requirePermission" ~> GuardedDone )

\* A plain user holding orders.view only asked for orders.edit and
\* orders.view under requireAll and was answered 403.
C26_Witness ==
  /\ GuardedDone /\ http.status = Some(403) /\ http.nextCalls = 0
  /\ http.requireAll /\ http.permissions = <<"orders.edit", "orders.view">>
  /\ IsDefined(http.user) /\ Val(http.user).userType = "user"
  /\ Val(http.user).permissions = Some(<<"orders.view">>)

\* C27: a request to a role route from a user who is not a superadmin and
\* whose tenant field differs from the tenant id taken from the path does
\* not get to a role controller, and validateTenantAccess answers it 403.
C27_OtherTenantNeverReachesController ==
  ( /\ http.route = "roles"
    /\ IsDefined(http.user) /\ Val(http.user).userType # "superadmin"
    /\ IsDefined(http.tenantId)
    /\ Val(http.user).tenant # http.tenantId )
  => /\ http.at # "controller"
     /\ http.at \in {"requireAdmin", "responded"} => http.status = Some(403)
====
